---- MODULE Spec2Model ----
(***************************************************************************)
(* Model of the search endpoint of Smart-Travel-Scout                      *)
(* (src/app/api/search/route.ts): the in-memory rate limiter, the request  *)
(* validator, the AI gateway call, the response sanitizer and the result   *)
(* assembler, as one state machine over concurrently handled requests.     *)
(***************************************************************************)
EXTENDS Integers, Sequences, FiniteSets, TLC

(***************************************************************************)
(* Bounds of the model.                                                    *)
(***************************************************************************)
\* number of requests the concurrent specification handles at once
NumSlots == 2
\* number of requests the concurrent specification receives
MaxRequests == 7
\* number of times the clock of the concurrent specification is advanced
MaxTicks == 1
\* longest candidate list the AI texts of the sequential specification hold
MaxCand == 2
\* number of times the clock of the limiter specification is advanced
MaxAdvances == 2
\* number of isRateLimited calls of the limiter specification
MaxCalls == 7

(***************************************************************************)
(* JSON values, as JSON.parse produces them.  Every value is a record      *)
(* tagged by t.  A number is n, or n + 1/2 when half is TRUE (a            *)
(* non-integer).  An object is the sequence of its own properties in the   *)
(* order the text gives them, with distinct keys.                          *)
(***************************************************************************)
JUndef == [t |-> "undefined"]
JNull == [t |-> "null"]
JBool(b) == [t |-> "bool", b |-> b]
JNum(n) == [t |-> "num", n |-> n, half |-> FALSE]
JHalf(n) == [t |-> "num", n |-> n, half |-> TRUE]
\* a string is its text s, its length len in UTF-16 units, and pad, the number
\* of those units that are leading or trailing whitespace
JText(s, len, pad) == [t |-> "str", s |-> s, len |-> len, pad |-> pad]
JStr(s) == JText(s, Len(s), 0)
JArr(items) == [t |-> "arr", items |-> items]
JObj(fields) == [t |-> "obj", fields |-> fields]
Prop(k, v) == [k |-> k, v |-> v]

\* Array.isArray
IsArray(v) == v.t = "arr"

\* keys that are canonical array indices, which a JavaScript object
\* enumerates first and in ascending numeric order
IndexOf(k) ==
    CASE k = "0" -> 0
      [] k = "1" -> 1
      [] k = "2" -> 2
      [] OTHER -> -1

RECURSIVE InsertByIndex(_, _)
InsertByIndex(p, sorted) ==
    IF sorted = <<>> THEN <<p>>
    ELSE IF IndexOf(p.k) < IndexOf(Head(sorted).k) THEN <<p>> \o sorted
    ELSE <<Head(sorted)>> \o InsertByIndex(p, Tail(sorted))

RECURSIVE SortByIndex(_)
SortByIndex(ps) ==
    IF ps = <<>> THEN <<>> ELSE InsertByIndex(Head(ps), SortByIndex(Tail(ps)))

\* the own properties of an object in enumeration order: index keys
\* ascending, then the other keys in insertion order
OwnProps(fields) ==
    SortByIndex(SelectSeq(fields, LAMBDA p : IndexOf(p.k) >= 0))
        \o SelectSeq(fields, LAMBDA p : IndexOf(p.k) < 0)

\* Object.values(v): throws on null, boxes a primitive (a string yields its
\* characters, none of which is an array; a number or a boolean yields
\* nothing), yields an array's items, an object's values
ObjectValues(v) ==
    CASE v.t = "null" -> [throws |-> TRUE, vals |-> <<>>]
      [] v.t = "obj" ->
            [throws |-> FALSE,
             vals |-> [i \in 1..Len(OwnProps(v.fields)) |-> OwnProps(v.fields)[i].v]]
      [] v.t = "arr" -> [throws |-> FALSE, vals |-> v.items]
      [] v.t = "str" ->
            [throws |-> FALSE, vals |-> [i \in 1..v.len |-> JStr("c")]]
      [] OTHER -> [throws |-> FALSE, vals |-> <<>>]

\* m?.key : undefined for null, for a primitive and for an array (JSON gives
\* arrays no named property), else the property or undefined
RECURSIVE Lookup(_, _)
Lookup(fields, key) ==
    IF fields = <<>> THEN JUndef
    ELSE IF Head(fields).k = key THEN Head(fields).v
    ELSE Lookup(Tail(fields), key)

Get(m, key) == IF m.t = "obj" THEN Lookup(m.fields, key) ELSE JUndef

\* a search that keeps the last array it meets
RECURSIVE FindArrayLast(_)
FindArrayLast(vals) ==
    IF vals = <<>> THEN <<>>
    ELSE IF FindArrayLast(Tail(vals)) # <<>> THEN FindArrayLast(Tail(vals))
    ELSE IF IsArray(Head(vals)) THEN Head(vals).items
    ELSE <<>>

\* Array.prototype.find(Array.isArray) ?? []
RECURSIVE FindArray(_)
FindArray(vals) ==
    IF vals = <<>> THEN <<>>
    ELSE IF IsArray(Head(vals)) THEN Head(vals).items
    ELSE FindArray(Tail(vals))

(***************************************************************************)
(* The inventory.                                                          *)
(***************************************************************************)
INVENTORY ==
    << [id |-> 1, title |-> "High-Altitude Tea Trails", location |-> "Nuwara Eliya",
        price |-> 120, tags |-> <<"cold", "nature", "hiking">>],
       [id |-> 2, title |-> "Coastal Heritage Wander", location |-> "Galle Fort",
        price |-> 45, tags |-> <<"history", "culture", "walking">>],
       [id |-> 3, title |-> "Wild Safari Expedition", location |-> "Yala",
        price |-> 250, tags |-> <<"animals", "adventure", "photography">>],
       [id |-> 4, title |-> "Surf & Chill Retreat", location |-> "Arugam Bay",
        price |-> 80, tags |-> <<"beach", "surfing", "young-vibe">>],
       [id |-> 5, title |-> "Ancient City Exploration", location |-> "Sigiriya",
        price |-> 110, tags |-> <<"history", "climbing", "view">>] >>

VALID_IDS == [i \in 1..Len(INVENTORY) |-> INVENTORY[i].id]

\* a whitelist that checks the type of the id and not its membership
ValidIdsIncludesAnyInteger(v) == v.t = "num" /\ ~v.half

\* VALID_IDS.includes(v): SameValueZero against the numbers of VALID_IDS
ValidIdsIncludes(v) ==
    /\ v.t = "num"
    /\ ~v.half
    /\ \E i \in 1..Len(VALID_IDS) : VALID_IDS[i] = v.n

(***************************************************************************)
(* Zod schemas.                                                            *)
(***************************************************************************)
MIN_PROMPT == 1
MAX_PROMPT == 500

\* the length cap off by one: a prompt of MAX_PROMPT characters is refused
PromptIssueOffByOne(p) ==
    IF p.t = "undefined" THEN "prompt is required"
    ELSE IF p.t # "str" THEN "Expected string"
    ELSE IF p.len < MIN_PROMPT THEN "prompt cannot be empty"
    ELSE IF p.len >= MAX_PROMPT THEN "prompt must be 500 characters or fewer"
    ELSE ""

\* z.string({required_error}).min(1, ...).max(500, ...): the message of the
\* first issue, or "" when the value passes
PromptIssue(p) ==
    IF p.t = "undefined" THEN "prompt is required"
    ELSE IF p.t # "str" THEN "Expected string"
    ELSE IF p.len < MIN_PROMPT THEN "prompt cannot be empty"
    ELSE IF p.len > MAX_PROMPT THEN "prompt must be 500 characters or fewer"
    ELSE ""

\* RequestSchema.safeParse(body).  Zod's own messages for a wrong type
\* ("Expected object, received null") are kept up to the received type.
RequestSchema(body) ==
    IF body.t # "obj"
        THEN [success |-> FALSE, message |-> "Expected object", prompt |-> JUndef]
    ELSE IF PromptIssue(Get(body, "prompt")) # ""
        THEN [success |-> FALSE, message |-> PromptIssue(Get(body, "prompt")),
              prompt |-> JUndef]
    ELSE [success |-> TRUE, message |-> "", prompt |-> Get(body, "prompt")]

\* z.number().int().refine(VALID_IDS.includes) on the id of an element
IdSchema(id) == id.t = "num" /\ ~id.half /\ ValidIdsIncludes(id)

\* z.string().min(1) on the reason of an element
ReasonSchema(reason) == reason.t = "str" /\ reason.len >= 1

\* the z.object({id, reason}) of AiMatchSchema on one element
ElementSchema(m) ==
    /\ m.t = "obj"
    /\ IdSchema(Get(m, "id"))
    /\ ReasonSchema(Get(m, "reason"))

\* AiMatchSchema.safeParse(candidate): on success the data holds, for each
\* element, its id and its reason only (unknown keys are stripped)
AiMatchSchema(candidate) ==
    IF \A i \in 1..Len(candidate) : ElementSchema(candidate[i])
    THEN [success |-> TRUE,
          data |-> [i \in 1..Len(candidate) |->
                      JObj(<<Prop("id", Get(candidate[i], "id")),
                             Prop("reason", Get(candidate[i], "reason"))>>)]]
    ELSE [success |-> FALSE, data |-> <<>>]

(***************************************************************************)
(* The AI gateway's answer and the response sanitizer.                     *)
(***************************************************************************)
\* response.text: undefined, a text that is no JSON, or the text of value v
NoText == [kind |-> "none", v |-> JNull]
NotJson == [kind |-> "garbage", v |-> JNull]
JsonText(v) == [kind |-> "json", v |-> v]

\* response.text ?? '[]'
RawContent(text) == IF text.kind = "none" THEN JsonText(JArr(<<>>)) ELSE text

\* JSON.parse(rawContent)
JsonParse(raw) ==
    IF raw.kind = "json" THEN [throws |-> FALSE, v |-> raw.v]
    ELSE [throws |-> TRUE, v |-> JNull]

\* Array.isArray(jsonParsed) ? jsonParsed
\*     : (Object.values(jsonParsed).find(Array.isArray) ?? [])
Candidate(jsonParsed) ==
    IF IsArray(jsonParsed) THEN [throws |-> FALSE, list |-> jsonParsed.items]
    ELSE IF ObjectValues(jsonParsed).throws THEN [throws |-> TRUE, list |-> <<>>]
    ELSE [throws |-> FALSE, list |-> FindArray(ObjectValues(jsonParsed).vals)]

\* the predicate of the lenient filter
LenientKeep(m) == ValidIdsIncludes(Get(m, "id")) /\ Get(m, "reason").t = "str"

\* candidate.filter(...)
LenientFilter(candidate) == SelectSeq(candidate, LenientKeep)

\* all or nothing: one malformed element discards the whole list
ValidateStrictOnly(candidate) ==
    IF AiMatchSchema(candidate).success THEN AiMatchSchema(candidate).data ELSE <<>>

\* the strict-then-lenient choice on a candidate list
Validate(candidate) ==
    IF AiMatchSchema(candidate).success THEN AiMatchSchema(candidate).data
    ELSE LenientFilter(candidate)

\* step 4 of POST: aiMatches for a raw content
Sanitize(raw) ==
    IF JsonParse(raw).throws THEN <<>>
    ELSE IF Candidate(JsonParse(raw).v).throws THEN <<>>
    ELSE Validate(Candidate(JsonParse(raw).v).list)

(***************************************************************************)
(* The result assembler.                                                   *)
(***************************************************************************)
NoItem == [id |-> 0, title |-> "", location |-> "", price |-> 0, tags |-> <<>>]

\* INVENTORY.find((inv) => inv.id === id)
RECURSIVE FindFrom(_, _)
FindFrom(i, id) ==
    IF i > Len(INVENTORY) THEN NoItem
    ELSE IF id.t = "num" /\ ~id.half /\ id.n = INVENTORY[i].id THEN INVENTORY[i]
    ELSE FindFrom(i + 1, id)

InventoryFind(id) == FindFrom(1, id)

\* { ...item, reason }
Joined(item, reason) ==
    [id |-> item.id, title |-> item.title, location |-> item.location,
     price |-> item.price, tags |-> item.tags, reason |-> reason]

\* an assembler that walks the catalog and emits each item once, for the
\* first match that names it
RECURSIVE CatalogOrderFrom(_, _)
CatalogOrderFrom(i, aiMatches) ==
    IF i > Len(INVENTORY) THEN <<>>
    ELSE LET hits == SelectSeq(aiMatches,
                               LAMBDA m : InventoryFind(Get(m, "id")) = INVENTORY[i])
         IN (IF hits = <<>> THEN <<>>
             ELSE <<Joined(INVENTORY[i], Get(Head(hits), "reason"))>>)
                \o CatalogOrderFrom(i + 1, aiMatches)

AssembleCatalogOrder(aiMatches) == CatalogOrderFrom(1, aiMatches)

\* step 5 of POST: map to the inventory record plus reason, drop the nulls
RECURSIVE Assemble(_)
Assemble(aiMatches) ==
    IF aiMatches = <<>> THEN <<>>
    ELSE IF InventoryFind(Get(Head(aiMatches), "id")) = NoItem
        THEN Assemble(Tail(aiMatches))
    ELSE <<Joined(InventoryFind(Get(Head(aiMatches), "id")),
                  Get(Head(aiMatches), "reason"))>>
            \o Assemble(Tail(aiMatches))

(***************************************************************************)
(* The rate limiter.                                                       *)
(***************************************************************************)
RATE_LIMIT == 5
RATE_WINDOW_MS == 60000

\* ipRequestMap.set(ip, { count: 1, windowStart: now })
NewWindow(map, ip, t) ==
    [i \in DOMAIN map \cup {ip} |->
        IF i = ip THEN [count |-> 1, windowStart |-> t] ELSE map[i]]

\* an increment that is lost: the map is left as it was read
IncrementLost(map, ip) == map

\* entry.count++
Increment(map, ip) == [map EXCEPT ![ip].count = @ + 1]

\* a window that already ends at its last millisecond
ExpiredAtEdge(map, ip, t) ==
    \/ ip \notin DOMAIN map
    \/ t - map[ip].windowStart >= RATE_WINDOW_MS

\* !entry || now - entry.windowStart > RATE_WINDOW_MS
Expired(map, ip, t) ==
    \/ ip \notin DOMAIN map
    \/ t - map[ip].windowStart > RATE_WINDOW_MS

\* a limiter whose refusals restart the window of the client
IsRateLimitedExtending(map, ip, t) ==
    IF Expired(map, ip, t) THEN [limited |-> FALSE, map |-> NewWindow(map, ip, t)]
    ELSE IF map[ip].count >= RATE_LIMIT
        THEN [limited |-> TRUE, map |-> [map EXCEPT ![ip].windowStart = t]]
    ELSE [limited |-> FALSE, map |-> Increment(map, ip)]

\* isRateLimited(ip) at Date.now() = t: the value returned and the map left
IsRateLimited(map, ip, t) ==
    IF Expired(map, ip, t) THEN [limited |-> FALSE, map |-> NewWindow(map, ip, t)]
    ELSE IF map[ip].count >= RATE_LIMIT THEN [limited |-> TRUE, map |-> map]
    ELSE [limited |-> FALSE, map |-> Increment(map, ip)]

(***************************************************************************)
(* Requests.                                                               *)
(***************************************************************************)
\* request headers: x-forwarded-for as the list of its comma-separated
\* segments, each already trimmed, and x-real-ip; absent headers are flagged
Headers(hasXff, segs, hasXri, xri) ==
    [hasXff |-> hasXff, segs |-> segs, hasXri |-> hasXri, xri |-> xri]

\* request.headers.get('x-forwarded-for')?.split(',')[0].trim()
\*     ?? request.headers.get('x-real-ip') ?? 'unknown'
ClientIp(h) ==
    IF h.hasXff THEN Head(h.segs)
    ELSE IF h.hasXri THEN h.xri
    ELSE "unknown"

\* request bodies: a text request.json() rejects, or the text of value v
BadBody == [kind |-> "garbage", v |-> JNull]
JsonBody(v) == [kind |-> "json", v |-> v]

\* await request.json().catch(() => ({}))
RequestJson(b) == IF b.kind = "json" THEN b.v ELSE JObj(<<>>)

\* a value thrown by the AI call: an Error with a message, or something else
Thrown(isError, message) == [isError |-> isError, message |-> message]

\* error instanceof Error ? error.message : 'Internal server error'
ErrorMessage(e) == IF e.isError THEN e.message ELSE "Internal server error"

TooMany == "Too many requests. Please wait a moment before trying again."

VARIABLES
    now,            \* Date.now()
    advances,       \* how often the clock was advanced
    ipRequestMap,   \* the limiter's map: client id -> [count, windowStart]
    reqs,           \* the requests being handled: position in POST, inputs, response
    arrived,        \* how many requests were received
    admitted,       \* <<client id, windowStart>> -> requests the limiter let pass
    calls           \* log of the isRateLimited calls made directly

vars == <<now, advances, ipRequestMap, reqs, arrived, admitted, calls>>

\* the handler activations that can be live at once; one whose request is
\* answered takes the next request
Requests == 1..NumSlots

\* a request not yet received
NewRequest ==
    [pc |-> "new", ip |-> "", limited |-> FALSE, windowStart |-> 0,
     body |-> BadBody, sent |-> JUndef, aiCalls |-> 0, ai |-> "none",
     text |-> NoText, aiMatches |-> <<>>,
     responses |-> 0, status |-> 0, kind |-> "", error |-> "", results |-> <<>>]

\* NextResponse.json({ error }, { status })
ErrorResponse(q, status, error) ==
    [q EXCEPT !.pc = "done", !.responses = @ + 1, !.status = status,
              !.kind = "error", !.error = error]

\* NextResponse.json({ results })
ResultsResponse(q, results) ==
    [q EXCEPT !.pc = "done", !.responses = @ + 1, !.status = 200,
              !.kind = "results", !.results = results]

Init ==
    /\ now = 0
    /\ advances = 0
    /\ ipRequestMap = << >>
    /\ reqs = [r \in Requests |-> NewRequest]
    /\ arrived = 0
    /\ admitted = << >>
    /\ calls = << >>

\* time passes between two steps of the event loop
Advance(d, limit) ==
    /\ advances < limit
    /\ now' = now + d
    /\ advances' = advances + 1
    /\ UNCHANGED <<ipRequestMap, reqs, arrived, admitted, calls>>

\* one more request let pass for client ip in the window starting at w
Admit(ip, w) ==
    [k \in DOMAIN admitted \cup {<<ip, w>>} |->
        IF k \in DOMAIN admitted
        THEN (IF k = <<ip, w>> THEN admitted[k] + 1 ELSE admitted[k])
        ELSE 1]

\* lines 90-95: the 429 response when isRateLimited returned true, else on
\* to the body read
Limited(q, limited) ==
    IF limited THEN ErrorResponse([q EXCEPT !.limited = TRUE], 429, TooMany)
    ELSE [q EXCEPT !.pc = "body"]

\* lines 98-119: request.json() settled with body b; RequestSchema.safeParse,
\* then the 400 response or the one AI call with the prompt as parsed
Validated(q, b) ==
    IF ~RequestSchema(RequestJson(b)).success
    THEN ErrorResponse([q EXCEPT !.body = b], 400, RequestSchema(RequestJson(b)).message)
    ELSE [q EXCEPT !.body = b, !.pc = "ai", !.aiCalls = @ + 1,
                   !.sent = RequestSchema(RequestJson(b)).prompt]

\* step 4 without its try/catch: a throw of JSON.parse or Object.values
\* reaches the outer catch
FulfilledNoInnerCatch(q, text) ==
    IF JsonParse(RawContent(text)).throws
        \/ Candidate(JsonParse(RawContent(text)).v).throws
    THEN ErrorResponse([q EXCEPT !.ai = "fulfilled", !.text = text], 500,
                       "Unexpected token")
    ELSE ResultsResponse([q EXCEPT !.ai = "fulfilled", !.text = text,
                                   !.aiMatches = Sanitize(RawContent(text))],
                         Assemble(Sanitize(RawContent(text))))

\* lines 121-154: the AI call fulfilled with response.text = text; the inner
\* try/catch turns every throw of step 4 into no matches
Fulfilled(q, text) ==
    ResultsResponse([q EXCEPT !.ai = "fulfilled", !.text = text,
                              !.aiMatches = Sanitize(RawContent(text))],
                    Assemble(Sanitize(RawContent(text))))

\* a gateway that calls again when the call rejects
RejectedRetry(q, e) == [q EXCEPT !.aiCalls = @ + 1]

\* lines 155-159: the AI call rejected with e; the outer catch answers 500
Rejected(q, e) == ErrorResponse([q EXCEPT !.ai = "rejected"], 500, ErrorMessage(e))

\* POST up to its first await (lines 83-98): the client id, isRateLimited,
\* and either the 429 response or the start of the body read.  No await
\* separates these lines, so they are one step of the event loop.  r is the
\* lowest activation that is free.
Receive(r, h, limit) ==
    /\ arrived < limit
    /\ reqs[r].pc \in {"new", "done"}
    /\ \A o \in 1..(r - 1) : reqs[o].pc \notin {"new", "done"}
    /\ LET ip == ClientIp(h)
           res == IsRateLimited(ipRequestMap, ip, now)
           q == [NewRequest EXCEPT !.ip = ip,
                                   !.windowStart = res.map[ip].windowStart]
       IN /\ ipRequestMap' = res.map
          /\ reqs' = [reqs EXCEPT ![r] = Limited(q, res.limited)]
          /\ admitted' = IF res.limited THEN admitted
                         ELSE Admit(ip, res.map[ip].windowStart)
    /\ arrived' = arrived + 1
    /\ UNCHANGED <<now, advances, calls>>

\* a handler that gives the request back to the client's quota when the
\* body is refused
BodyReadRefund(r, b) ==
    /\ reqs[r].pc = "body"
    /\ reqs' = [reqs EXCEPT ![r] = Validated(reqs[r], b)]
    /\ ipRequestMap' =
          IF Validated(reqs[r], b).status = 400
          THEN [ipRequestMap EXCEPT ![reqs[r].ip].count = @ - 1]
          ELSE ipRequestMap
    /\ UNCHANGED <<now, advances, arrived, admitted, calls>>

\* POST from the body read to its second await
BodyRead(r, b) ==
    /\ reqs[r].pc = "body"
    /\ reqs' = [reqs EXCEPT ![r] = Validated(reqs[r], b)]
    /\ UNCHANGED <<now, advances, ipRequestMap, arrived, admitted, calls>>

\* POST after the AI call fulfils: steps 4 and 5 and the 200 response
AiReturn(r, text) ==
    /\ reqs[r].pc = "ai"
    /\ reqs' = [reqs EXCEPT ![r] = Fulfilled(reqs[r], text)]
    /\ UNCHANGED <<now, advances, ipRequestMap, arrived, admitted, calls>>

\* POST after the AI call rejects
AiThrow(r, e) ==
    /\ reqs[r].pc = "ai"
    /\ reqs' = [reqs EXCEPT ![r] = Rejected(reqs[r], e)]
    /\ UNCHANGED <<now, advances, ipRequestMap, arrived, admitted, calls>>

\* isRateLimited called for the client of headers h, on its own
Call(h) ==
    /\ Len(calls) < MaxCalls
    /\ LET ip == ClientIp(h)
           res == IsRateLimited(ipRequestMap, ip, now)
       IN /\ ipRequestMap' = res.map
          /\ calls' = Append(calls, [ip |-> ip, at |-> now, limited |-> res.limited,
                                     count |-> res.map[ip].count,
                                     windowStart |-> res.map[ip].windowStart])
    /\ UNCHANGED <<now, advances, reqs, arrived, admitted>>

(***************************************************************************)
(* Inputs.                                                                 *)
(***************************************************************************)
\* clock steps: one millisecond, and the whole window
Deltas == {1, RATE_WINDOW_MS}

\* clock steps of the concurrent specification: to the last millisecond of
\* a window, and past it
Ticks == {RATE_WINDOW_MS, RATE_WINDOW_MS + 1}

\* the headers of the sequential specification: a forwarded address, or
\* no address at all
HeaderChoices ==
    { Headers(TRUE, <<"10.0.0.1", "proxy">>, TRUE, "10.0.0.2"),
      Headers(FALSE, <<>>, FALSE, "") }

\* the headers of the limiter specification: two clients, one known by its
\* forwarded address and one by x-real-ip
TwoClients ==
    { Headers(TRUE, <<"10.0.0.1", "proxy">>, FALSE, ""),
      Headers(FALSE, <<>>, TRUE, "10.0.0.2") }

\* the headers of the concurrent specification: one client
OneClient == { Headers(TRUE, <<"10.0.0.1", "proxy">>, TRUE, "10.0.0.2") }

\* prompts around the limits of RequestSchema, with and without surrounding
\* whitespace
Prompts ==
    { JText("", MIN_PROMPT - 1, 0), JText("p", MIN_PROMPT, 0), JText(" ", MIN_PROMPT, 1),
      JText("p", MAX_PROMPT, 0), JText("p", MAX_PROMPT + 1, 0),
      JText("p", MAX_PROMPT + 1, 1) }

Bodies ==
    { BadBody, JsonBody(JObj(<<>>)), JsonBody(JObj(<<Prop("query", JStr("beach"))>>)),
      JsonBody(JNull), JsonBody(JArr(<<>>)), JsonBody(JStr("beach")),
      JsonBody(JObj(<<Prop("prompt", JNum(7))>>)),
      JsonBody(JObj(<<Prop("prompt", JNull)>>)) }
    \cup { JsonBody(JObj(<<Prop("prompt", p)>>)) : p \in Prompts }

\* the bodies of the concurrent specification
FewBodies ==
    { JsonBody(JObj(<<>>)),
      JsonBody(JObj(<<Prop("prompt", JText("p", 5, 0))>>)) }

Errors == { Thrown(TRUE, "fetch failed"), Thrown(FALSE, "") }
FewErrors == { Thrown(TRUE, "fetch failed") }

\* an element { id, reason }
Match(id, reason) == JObj(<<Prop("id", id), Prop("reason", reason)>>)

\* elements of a candidate list: well-formed ones and malformed ones
Elements ==
    { Match(JNum(1), JStr("x")), Match(JNum(2), JStr("z")),
      Match(JNum(99), JStr("y")), JObj(<<Prop("id", JStr("bad"))>>),
      Match(JNum(1), JStr("")), Match(JHalf(1), JStr("x")),
      Match(JNum(3), JNum(7)), Match(JStr("1"), JStr("x")),
      Match(JNum(6), JStr("x")),
      JObj(<<Prop("id", JNum(5))>>), JNull, JStr("str"),
      JArr(<<Match(JNum(1), JStr("x"))>>),
      JObj(<<Prop("id", JNum(4)), Prop("reason", JStr("w")),
             Prop("title", JStr("Fake")), Prop("price", JNum(0))>>) }

\* the candidate lists of up to MaxCand elements, and the example of the
\* partial-failure policy
Lists ==
    UNION { [1..n -> Elements] : n \in 0..MaxCand }
        \cup { << Match(JNum(1), JStr("x")), Match(JNum(99), JStr("y")),
                  JObj(<<Prop("id", JStr("bad"))>>) >> }

\* short lists for the envelopes with more than one property
ShortLists ==
    { <<>>, <<Match(JNum(2), JStr("z"))>>, <<Match(JNum(99), JStr("y"))>>,
      <<Match(JNum(1), JStr("x")), Match(JNum(3), JStr("s"))>> }

\* what the provider can answer: no text, text that is no JSON, a bare
\* array, an envelope object, any other JSON value
Texts ==
    { NoText, NotJson, JsonText(JNull), JsonText(JNum(5)), JsonText(JStr("not json")),
      JsonText(JBool(TRUE)), JsonText(JObj(<<>>)),
      JsonText(JObj(<<Prop("count", JNum(0)), Prop("note", JStr("none"))>>)) }
    \cup { JsonText(JArr(l)) : l \in Lists }
    \cup { JsonText(JObj(<<Prop("matches", JArr(l))>>)) : l \in Lists }
    \cup { JsonText(JObj(<<Prop("note", JStr("n")), Prop(k1, JArr(l1)), Prop(k2, JArr(l2))>>)) :
             k1 \in {"matches", "2"}, k2 \in {"1", "other"},
             l1 \in ShortLists, l2 \in ShortLists }

\* the answers of the concurrent specification
FewTexts ==
    { NotJson,
      JsonText(JArr(<< Match(JNum(4), JStr("matches beach and budget")) >>)) }

(***************************************************************************)
(* Specifications.                                                         *)
(***************************************************************************)
\* the endpoint under concurrent requests of one client
Next ==
    \/ \E d \in Ticks : Advance(d, MaxTicks)
    \/ \E r \in Requests, h \in OneClient : Receive(r, h, MaxRequests)
    \/ \E r \in Requests, b \in FewBodies : BodyRead(r, b)
    \/ \E r \in Requests, text \in FewTexts : AiReturn(r, text)
    \/ \E r \in Requests, e \in FewErrors : AiThrow(r, e)

Spec == Init /\ [][Next]_vars

\* one request, over every header, body, answer and error
NextSeq ==
    \/ \E h \in HeaderChoices : Receive(1, h, 1)
    \/ \E b \in Bodies : BodyRead(1, b)
    \/ \E text \in Texts : AiReturn(1, text)
    \/ \E e \in Errors : AiThrow(1, e)

SpecSeq == Init /\ [][NextSeq]_vars

\* the limiter alone, called for several clients as time passes
NextLimiter ==
    \/ \E d \in Deltas : Advance(d, MaxAdvances)
    \/ \E h \in TwoClients : Call(h)

SpecLimiter == Init /\ [][NextLimiter]_vars

(***************************************************************************)
(* Properties.                                                             *)
(***************************************************************************)
\* request r was answered 200
Done200(r) == reqs[r].pc = "done" /\ reqs[r].status = 200

\* v is an integer number of the set S
IsIdIn(v, S) == v.t = "num" /\ ~v.half /\ v.n \in S

\* the ids of the inventory, as the fixed dataset gives them
InventoryIds == 1..5

\* C1: every entry of the results of a 200 response has an id of the
\* inventory, and so has every match the sanitizer returned, whatever text
\* the provider answered and whichever of the strict and the lenient path
\* was taken.
C1_ResultIdsInInventory ==
    \A r \in Requests :
        Done200(r) =>
            /\ \A i \in 1..Len(reqs[r].results) : reqs[r].results[i].id \in InventoryIds
            /\ \A i \in 1..Len(reqs[r].aiMatches) :
                  IsIdIn(Get(reqs[r].aiMatches[i], "id"), InventoryIds)

\* a list with an id outside the inventory went down the lenient path and
\* only the inventory's item was surfaced
C1_Witness ==
    \E r \in Requests :
        /\ Done200(r)
        /\ reqs[r].text =
              JsonText(JArr(<<Match(JNum(1), JStr("x")), Match(JNum(99), JStr("y"))>>))
        /\ Len(reqs[r].results) = 1
        /\ reqs[r].results[1].id = 1

\* C2: every reason of a result is a string, and not the empty one.
C2_ReasonNonEmpty ==
    \A r \in Requests :
        Done200(r) =>
            \A i \in 1..Len(reqs[r].results) :
                /\ reqs[r].results[i].reason.t = "str"
                /\ reqs[r].results[i].reason.len >= 1

\* the isRateLimited calls made for client ip, in order
CallsOf(ip) == SelectSeq(calls, LAMBDA c : c.ip = ip)

\* the clients isRateLimited was called for
Callers == { calls[i].ip : i \in 1..Len(calls) }

\* call i of the sequence S falls within 60 seconds of the first one
InFirstWindow(S, i) == S[i].at - S[1].at <= 60000

\* C3: for a client starting with no entry, the first 5 calls within 60
\* seconds of the first one are allowed, every further call in that window
\* is refused, and the first call after the window has elapsed is allowed
\* and leaves the entry at count = 1 and windowStart = now.
C3_FixedWindow ==
    \A ip \in Callers :
        LET S == CallsOf(ip)
        IN \A i \in 1..Len(S) :
              /\ InFirstWindow(S, i) /\ i <= 5 =>
                    ~S[i].limited /\ S[i].count = i /\ S[i].windowStart = S[1].at
              /\ InFirstWindow(S, i) /\ i > 5 => S[i].limited
              /\ ~InFirstWindow(S, i) /\ (\A j \in 1..(i - 1) : InFirstWindow(S, j)) =>
                    ~S[i].limited /\ S[i].count = 1 /\ S[i].windowStart = S[i].at

\* five calls allowed, the sixth refused at the last millisecond of the
\* window, the seventh allowed one millisecond later
C3_Witness ==
    \E ip \in Callers :
        LET S == CallsOf(ip)
        IN /\ Len(S) >= 7
           /\ ~S[5].limited
           /\ S[6].limited
           /\ S[6].at - S[1].at = 60000
           /\ S[7].at - S[1].at = 60001
           /\ ~S[7].limited

\* the calls of the client of call i that were allowed in the 60 seconds
\* starting with call i
AllowedInSixtySeconds(i) ==
    { j \in 1..Len(calls) :
        /\ calls[j].ip = calls[i].ip
        /\ ~calls[j].limited
        /\ calls[j].at >= calls[i].at
        /\ calls[j].at < calls[i].at + 60000 }

\* C4: in every interval of 60 seconds, wherever it starts, at most 5
\* requests of one client pass the limiter.
C4_AnySixtySeconds ==
    \A i \in 1..Len(calls) :
        ~calls[i].limited => Cardinality(AllowedInSixtySeconds(i)) <= 5

\* the id and the reason of each element of a list
Pairs(list) == [i \in 1..Len(list) |-> <<Get(list[i], "id"), Get(list[i], "reason")>>]

\* an element with an id of the inventory and a string for a reason
WellFormed(m) == IsIdIn(Get(m, "id"), InventoryIds) /\ Get(m, "reason").t = "str"

\* the text of request r parsed and gave a candidate list
HasCandidate(r) ==
    /\ reqs[r].ai = "fulfilled"
    /\ ~JsonParse(RawContent(reqs[r].text)).throws
    /\ ~Candidate(JsonParse(RawContent(reqs[r].text)).v).throws

CandidateOf(r) == Candidate(JsonParse(RawContent(reqs[r].text)).v).list

\* C5: the matches the sanitizer returns are, by id and reason, exactly the
\* elements of the candidate list that have an id of the inventory and a
\* string for a reason, in the order of the list: no malformed element
\* suppresses another one.
C5_PartialFailure ==
    \A r \in Requests :
        HasCandidate(r) =>
            Pairs(reqs[r].aiMatches) = Pairs(SelectSeq(CandidateOf(r), WellFormed))

\* the example of the policy: [{id:1,reason:"x"},{id:99,reason:"y"},{id:"bad"}]
C5_Witness ==
    \E r \in Requests :
        /\ Done200(r)
        /\ reqs[r].text =
              JsonText(JArr(<< Match(JNum(1), JStr("x")), Match(JNum(99), JStr("y")),
                               JObj(<<Prop("id", JStr("bad"))>>) >>))
        /\ reqs[r].aiMatches = << Match(JNum(1), JStr("x")) >>

\* C7: whatever the provider answers once its call has fulfilled, no text
\* at all included, the one response is a 200 carrying a results array.
C7_MalformedOutputIsNoError ==
    \A r \in Requests :
        reqs[r].ai = "fulfilled" =>
            /\ reqs[r].pc = "done"
            /\ reqs[r].responses = 1
            /\ reqs[r].status = 200
            /\ reqs[r].kind = "results"

\* the provider answered the JSON text null, on which Object.values throws
C7_Witness ==
    \E r \in Requests :
        /\ reqs[r].ai = "fulfilled"
        /\ reqs[r].text = JsonText(JNull)
        /\ reqs[r].status = 200
        /\ reqs[r].results = <<>>

\* the body of request r has been read
BodyWasRead(r) ==
    \/ reqs[r].pc = "ai"
    \/ reqs[r].pc = "done" /\ ~reqs[r].limited

\* the body of request r is a JSON object
ObjectBody(r) == reqs[r].body.kind = "json" /\ reqs[r].body.v.t = "obj"

PromptOf(r) == Get(reqs[r].body.v, "prompt")

\* request r was refused with 400 and this message, before any AI call
Refused(r, message) ==
    /\ reqs[r].pc = "done"
    /\ reqs[r].status = 400
    /\ reqs[r].error = message
    /\ reqs[r].aiCalls = 0

\* C8: a string prompt of 1 to 500 characters is accepted; the empty
\* prompt is refused with 400 'prompt cannot be empty', one of more than
\* 500 characters with 400 'prompt must be 500 characters or fewer', and an
\* object without prompt or a body that is no JSON with 400 'prompt is
\* required'.
C8_RequestValidator ==
    \A r \in Requests :
        BodyWasRead(r) =>
            /\ reqs[r].body.kind = "garbage" => Refused(r, "prompt is required")
            /\ ObjectBody(r) /\ PromptOf(r).t = "undefined" =>
                  Refused(r, "prompt is required")
            /\ ObjectBody(r) /\ PromptOf(r).t = "str" =>
                  /\ PromptOf(r).len = 0 => Refused(r, "prompt cannot be empty")
                  /\ PromptOf(r).len > 500 =>
                        Refused(r, "prompt must be 500 characters or fewer")
                  /\ PromptOf(r).len \in 1..500 =>
                        /\ reqs[r].status \notin {400, 429}
                        /\ reqs[r].aiCalls = 1
                        /\ reqs[r].sent = PromptOf(r)

\* a prompt of 500 characters went to the AI call
C8_Witness ==
    \E r \in Requests :
        /\ ObjectBody(r)
        /\ PromptOf(r).t = "str"
        /\ PromptOf(r).len = 500
        /\ reqs[r].aiCalls = 1

\* String.prototype.trim on the model of a string
Trim(v) == [v EXCEPT !.len = v.len - v.pad, !.pad = 0]

\* C9: a prompt reaches the AI gateway only if, with its surrounding
\* whitespace removed, it has 1 to 500 characters.
C9_TrimmedPromptInRange ==
    \A r \in Requests :
        reqs[r].aiCalls >= 1 => Trim(reqs[r].sent).len \in 1..500

\* the body of request r passes the request validator
BodyValid(r) ==
    /\ ObjectBody(r)
    /\ PromptOf(r).t = "str"
    /\ PromptOf(r).len \in 1..500

\* the status the first failing stage of request r decides
StageStatus(r) ==
    IF reqs[r].limited THEN 429
    ELSE IF ~BodyValid(r) THEN 400
    ELSE IF reqs[r].ai = "rejected" THEN 500
    ELSE 200

\* C6: a request is answered once, with the status of the first stage that
\* fails in the order limiter, validator, gateway (429, 400, 500, else
\* 200); the gateway is called at most once, and only for a request the
\* limiter allowed and whose body is valid.
C6_StatusByFirstFailingStage ==
    \A r \in Requests :
        /\ reqs[r].responses <= 1
        /\ reqs[r].pc = "done" <=> reqs[r].responses = 1
        /\ reqs[r].aiCalls <= 1
        /\ reqs[r].aiCalls = 1 => ~reqs[r].limited /\ BodyValid(r)
        /\ reqs[r].ai # "none" => reqs[r].aiCalls = 1
        /\ reqs[r].pc = "done" =>
              /\ reqs[r].status = StageStatus(r)
              /\ reqs[r].status \in {429, 400} => reqs[r].aiCalls = 0
              /\ reqs[r].status \in {500, 200} => reqs[r].aiCalls = 1

\* one request refused by the limiter, another answered 500 after its one
\* AI call
C6_Witness ==
    \E r1, r2 \in Requests :
        /\ reqs[r1].pc = "done" /\ reqs[r1].status = 429 /\ reqs[r1].aiCalls = 0
        /\ reqs[r2].pc = "done" /\ reqs[r2].status = 500 /\ reqs[r2].aiCalls = 1

\* C10: with requests of one client interleaving at their awaits, the
\* limiter counts every request it lets pass (the count of a client's entry
\* is the number of requests admitted in its window), lets at most 5 pass
\* in one window, and a request suspended in the AI call keeps no other
\* request from the limiter.
C10_AtomicCheckAndRecord ==
    /\ \A ip \in DOMAIN ipRequestMap :
          /\ <<ip, ipRequestMap[ip].windowStart>> \in DOMAIN admitted
          /\ admitted[<<ip, ipRequestMap[ip].windowStart>>] = ipRequestMap[ip].count
    /\ \A k \in DOMAIN admitted : admitted[k] <= 5
    /\ /\ \E r \in Requests : reqs[r].pc = "ai"
       /\ \E r \in Requests : reqs[r].pc \in {"new", "done"}
       /\ arrived < MaxRequests
       => ENABLED (\E r \in Requests, h \in OneClient : Receive(r, h, MaxRequests))

\* while one request is suspended in its AI call, five requests of its
\* window were let pass and a later one was refused
C10_Witness ==
    \E r1, r2 \in Requests :
        /\ reqs[r1].pc = "ai"
        /\ reqs[r2].pc = "done" /\ reqs[r2].status = 429
        /\ reqs[r2].windowStart = reqs[r1].windowStart
        /\ admitted[<<reqs[r1].ip, reqs[r1].windowStart>>] = 5

\* the record of the inventory with id n
ItemOf(n) == INVENTORY[CHOOSE i \in 1..Len(INVENTORY) : INVENTORY[i].id = n]

\* the result the claim expects for match m: the fields of the inventory
\* record with m's id, and m's reason
ExpectedResult(m) ==
    [id |-> ItemOf(Get(m, "id").n).id, title |-> ItemOf(Get(m, "id").n).title,
     location |-> ItemOf(Get(m, "id").n).location,
     price |-> ItemOf(Get(m, "id").n).price, tags |-> ItemOf(Get(m, "id").n).tags,
     reason |-> Get(m, "reason")]

\* C11: the results are the sanitized matches, one for one and in the
\* order the AI gave them, repeated ids included, each mapped to the
\* inventory record of its id plus its reason; title, location, price and
\* tags are the inventory's, never the AI's.
C11_ResultAssembly ==
    \A r \in Requests :
        Done200(r) =>
            /\ Len(reqs[r].results) = Len(reqs[r].aiMatches)
            /\ \A i \in 1..Len(reqs[r].results) :
                  reqs[r].results[i] = ExpectedResult(reqs[r].aiMatches[i])

\* the AI named item 4 with a title and a price of its own, then item 1:
\* the results keep that order and the inventory's title and price
C11_Witness ==
    \E r \in Requests :
        /\ Done200(r)
        /\ reqs[r].text =
              JsonText(JArr(<< JObj(<<Prop("id", JNum(4)), Prop("reason", JStr("w")),
                                     Prop("title", JStr("Fake")), Prop("price", JNum(0))>>),
                               Match(JNum(1), JStr("x")) >>))
        /\ Len(reqs[r].results) = 2
        /\ reqs[r].results[1].id = 4
        /\ reqs[r].results[1].title = "Surf & Chill Retreat"
        /\ reqs[r].results[1].price = 80
        /\ reqs[r].results[2].id = 1

\* key order of the properties at positions i and j of an object's text:
\* keys that are array indices come first, in ascending numeric order, the
\* other keys follow in the order of the text (the order of Object.keys)
KeyBefore(fields, i, j) ==
    IF IndexOf(fields[i].k) >= 0 /\ IndexOf(fields[j].k) >= 0
        THEN IndexOf(fields[i].k) < IndexOf(fields[j].k)
    ELSE IF IndexOf(fields[i].k) >= 0 THEN TRUE
    ELSE IF IndexOf(fields[j].k) >= 0 THEN FALSE
    ELSE i < j

\* the positions of the properties of an object whose value is an array
ArrayProps(fields) == { i \in 1..Len(fields) : fields[i].v.t = "arr" }

\* the candidate list the claim gives a parsed value v
EnvelopeCandidate(v) ==
    IF v.t = "arr" THEN v.items
    ELSE IF v.t = "obj" /\ ArrayProps(v.fields) # {}
        THEN v.fields[CHOOSE i \in ArrayProps(v.fields) :
                        \A j \in ArrayProps(v.fields) \ {i} : KeyBefore(v.fields, i, j)].v.items
    ELSE <<>>

\* C12: the matches are those of the parsed array itself, or of the first
\* array among the values of a parsed object in key order (every other
\* value, later arrays included, being ignored), or of the empty list for
\* any other JSON value and for an object without an array.
C12_EnvelopeTolerance ==
    \A r \in Requests :
        reqs[r].ai = "fulfilled" /\ RawContent(reqs[r].text).kind = "json" =>
            reqs[r].aiMatches = Validate(EnvelopeCandidate(RawContent(reqs[r].text).v))

\* an envelope with a note and two arrays: the matches are those of the
\* first array, the second one is ignored
C12_Witness ==
    \E r \in Requests :
        /\ Done200(r)
        /\ reqs[r].text =
              JsonText(JObj(<< Prop("note", JStr("n")),
                               Prop("matches", JArr(<<Match(JNum(2), JStr("z"))>>)),
                               Prop("other", JArr(<< Match(JNum(1), JStr("x")),
                                                     Match(JNum(3), JStr("s")) >>)) >>))
        /\ reqs[r].aiMatches = << Match(JNum(2), JStr("z")) >>

\* the last call of the sequence S before call i that was allowed (the
\* first call of a client always is)
LastAllowed(S, i) ==
    CHOOSE k \in 1..(i - 1) :
        /\ ~S[k].limited
        /\ \A j \in (k + 1)..(i - 1) : S[j].limited

\* in the log of each client: a refused call leaves count and windowStart
\* as the last allowed call left them, and a call made more than 60000 ms
\* after that windowStart is allowed and opens a new window, whatever number
\* of refused calls lies in between
RefusalsDoNotExtend ==
    \A ip \in Callers :
        LET S == CallsOf(ip)
        IN \A i \in 2..Len(S) :
              LET last == S[LastAllowed(S, i)]
              IN /\ S[i].limited =>
                       /\ last.count >= 5
                       /\ S[i].at - last.windowStart <= 60000
                       /\ S[i].count = last.count
                       /\ S[i].windowStart = last.windowStart
                 /\ S[i].at - last.windowStart > 60000 =>
                       /\ ~S[i].limited
                       /\ S[i].count = 1
                       /\ S[i].windowStart = S[i].at

\* a step that is an isRateLimited call returning true leaves the whole map
\* as it was
RefusalKeepsMap ==
    Len(calls') = Len(calls) + 1 /\ calls'[Len(calls')].limited
        => ipRequestMap' = ipRequestMap

\* C13: a refused isRateLimited call changes nothing in the map, neither
\* count nor windowStart of any client; so refusals never extend a window,
\* and a blocked client is allowed again by its first call made more than
\* 60000 ms after windowStart, however many refused calls came in between.
C13_RefusalLeavesMapUnchanged == []RefusalsDoNotExtend /\ [][RefusalKeepsMap]_vars

\* a client blocked after 5 calls is refused 1 ms into its window and
\* allowed 60001 ms into it: the refusal did not move windowStart
C13_Witness ==
    \E ip \in Callers :
        LET S == CallsOf(ip)
        IN /\ Len(S) >= 7
           /\ S[6].limited
           /\ S[6].at - S[1].at = 1
           /\ ~S[7].limited
           /\ S[7].at - S[1].at = 60001
           /\ S[7].count = 1

\* request r passed the limiter
Passed(r) == reqs[r].pc \in {"body", "ai"} \/ (reqs[r].pc = "done" /\ ~reqs[r].limited)

\* the entry of client ip is full and its window has not expired
Blocked(ip) ==
    /\ ip \in DOMAIN ipRequestMap
    /\ ipRequestMap[ip].count >= 5
    /\ now - ipRequestMap[ip].windowStart <= 60000

\* every request that passed the limiter is in the count of its window from
\* the moment it passed, before its body is read, and stays in it whatever
\* its answer; the count of the current window is the number of requests
\* that passed in it
QuotaRecorded ==
    /\ \A r \in Requests :
          Passed(r) =>
              /\ <<reqs[r].ip, reqs[r].windowStart>> \in DOMAIN admitted
              /\ admitted[<<reqs[r].ip, reqs[r].windowStart>>] >= 1
              /\ reqs[r].pc = "done" => reqs[r].status \in {400, 500, 200}
    /\ \A ip \in DOMAIN ipRequestMap :
          /\ admitted[<<ip, ipRequestMap[ip].windowStart>>] = ipRequestMap[ip].count
          /\ Cardinality({r \in Requests :
                 /\ Passed(r)
                 /\ reqs[r].ip = ip
                 /\ reqs[r].windowStart = ipRequestMap[ip].windowStart})
                <= ipRequestMap[ip].count

\* a step that answers a request 400, 500 or 200 leaves the map as it was:
\* only the entry of a request changes it
NoRefund ==
    /\ ipRequestMap' # ipRequestMap => arrived' = arrived + 1
    /\ \A r \in Requests :
          reqs[r].pc \in {"body", "ai"} /\ reqs'[r].pc = "done"
              => /\ reqs'[r].status \in {400, 500, 200}
                 /\ ipRequestMap' = ipRequestMap
                 /\ admitted' = admitted

\* a request entering while its client is blocked is answered 429 in the
\* same step: its body is never read, the gateway never called
BlockedIsRefused ==
    \A r \in Requests :
        /\ arrived' = arrived + 1
        /\ reqs'[r] # reqs[r]
        /\ Blocked(reqs'[r].ip)
        => /\ reqs'[r].pc = "done"
           /\ reqs'[r].status = 429
           /\ reqs'[r].aiCalls = 0
           /\ reqs'[r].body = BadBody
           /\ ipRequestMap' = ipRequestMap

\* C14: the limiter records a request at its entry, before the body is
\* read, and no answer gives it back: a request answered 400 or 500 stays
\* counted like one answered 200, so after 5 requests of one client in one
\* window, whatever their answers, that client's next request in the window
\* is answered 429 without its body being looked at.
C14_FailedRequestsConsumeQuota ==
    []QuotaRecorded /\ [][NoRefund /\ BlockedIsRefused]_vars

\* in one window five requests passed, one of them was answered 400 for
\* its body, and a later one was refused
C14_Witness ==
    \E r1, r2 \in Requests :
        /\ reqs[r1].pc = "done" /\ reqs[r1].status = 400
        /\ reqs[r2].pc = "done" /\ reqs[r2].status = 429
        /\ reqs[r2].ip = reqs[r1].ip
        /\ reqs[r2].windowStart = reqs[r1].windowStart
        /\ admitted[<<reqs[r1].ip, reqs[r1].windowStart>>] = 5
        /\ ipRequestMap[reqs[r1].ip].count = 5

====
